---- MODULE Spec2Model ----
(***************************************************************************)
(* Model of seiten-formatter.py: a linear pipeline                         *)
(*   load_settings -> fetch_html -> remove_tags -> extract_paragraphs ->   *)
(*   remove_special_chars -> remove_numeric_patterns ->                    *)
(*   adjust_line_breaks -> save_text_to_file                               *)
(* A Python str is modelled as the sequence of its Unicode code points.    *)
(***************************************************************************)
EXTENDS Integers, Sequences, FiniteSets, TLC

VARIABLES
    pc,          \* position in main(), or the function last applied
    cfgFile,     \* environment: state of settings.yaml
    srcFile,     \* environment: state of the local source document
    netResp,     \* environment: what requests.get does for the remote URL
    outFile,     \* environment: the file at output_file
    outBefore,   \* the file at output_file as it was before the run
    log,         \* what has been printed, one entry per print call
    ran,         \* the stages of main() executed so far, in order
    exc,         \* the exception that ended main(), "none" if none
    settings,    \* main: settings
    html_text,   \* main: html_text
    soup,        \* the document tree (BeautifulSoup object)
    found,       \* remove_tags: the elements find_all returned, still to visit
    text,        \* the document text threaded through the pipeline
    prev,        \* the text before the last transform was applied
    applied      \* how many times the transform under check was applied

vars == <<pc, cfgFile, srcFile, netResp, outFile, outBefore, log, ran, exc,
          settings, html_text, soup, found, text, prev, applied>>

(***************************************************************************)
(* Characters (code points) the source names.                              *)
(***************************************************************************)
NEWLINE == 10                \* "\n"
BANG == 33                   \* "!"
RPAREN == 41                 \* ")"
ASCII_SPACE == 32            \* " "
IDEOGRAPHIC_SPACE == 12288   \* U+3000, fullwidth space
IDEOGRAPHIC_COMMA == 12289   \* U+3001
FULL_STOP == 12290           \* U+3002, ideographic full stop
LEFT_BRACKET == 12304        \* U+3010, left black lenticular bracket
HALFWIDTH_STOP == 65377      \* U+FF61, halfwidth ideographic full stop
HALFWIDTH_COMMA == 65380     \* U+FF64, halfwidth ideographic comma
KANJI_ONE == 19968           \* U+4E00

\* Characters that occur only in the inputs fed to the program.
InputChars ==
    [ lparen |-> 40, digit_1 |-> 49, digit_2 |-> 50, digit_3 |-> 51, digit_4 |-> 52,
      fullwidth_digit_1 |-> 65297,
      hiragana_a |-> 12354, hiragana_i |-> 12356, hiragana_u |-> 12358,
      kanji_next |-> 27425, kanji_before |-> 21069, kanji_after |-> 24460 ]

LPAREN == InputChars.lparen
DIGIT_1 == InputChars.digit_1
DIGIT_2 == InputChars.digit_2
DIGIT_3 == InputChars.digit_3
DIGIT_4 == InputChars.digit_4
FULLWIDTH_DIGIT_1 == InputChars.fullwidth_digit_1    \* U+FF11
HIRAGANA_A == InputChars.hiragana_a                  \* U+3042
HIRAGANA_I == InputChars.hiragana_i                  \* U+3044
HIRAGANA_U == InputChars.hiragana_u                  \* U+3046
KANJI_NEXT == InputChars.kanji_next                  \* U+6B21
KANJI_BEFORE == InputChars.kanji_before              \* U+524D
KANJI_AFTER == InputChars.kanji_after                \* U+5F8C

(***************************************************************************)
(* remove_special_chars: str.maketrans(char_mapping) and str.translate.    *)
(***************************************************************************)
\* The keys of char_mapping whose value is the empty string.
DeletedChars ==
    { KANJI_ONE, IDEOGRAPHIC_SPACE, 42, 94, 172, 188, 8595, 8593, 170, 9678,
      9650, 9660, 9670, 186, 8615, 8613, 8608, 8606, 8609, 8610,
      8611, 8614, 9661, 9651, 710, 711, ASCII_SPACE }

\* char_mapping as a function from a key to its replacement string.
char_mapping ==
    [c \in DeletedChars \cup {HALFWIDTH_STOP, HALFWIDTH_COMMA} |->
        IF c = HALFWIDTH_STOP THEN <<FULL_STOP>>
        ELSE IF c = HALFWIDTH_COMMA THEN <<IDEOGRAPHIC_COMMA>>
        ELSE <<>>]

\* A mapping whose replacement for the halfwidth stop is itself a key.
char_mapping_value_is_key ==
    [c \in DOMAIN char_mapping |->
        IF c = HALFWIDTH_STOP THEN <<FULL_STOP, IDEOGRAPHIC_SPACE>>
        ELSE char_mapping[c]]

\* str.translate(table): each character that is a key is replaced by its
\* value, every other character is copied.
RECURSIVE translate(_, _)
translate(s, table) ==
    IF s = <<>> THEN <<>>
    ELSE (IF Head(s) \in DOMAIN table THEN table[Head(s)] ELSE <<Head(s)>>)
         \o translate(Tail(s), table)

remove_special_chars_value_is_key(s) == translate(s, char_mapping_value_is_key)

remove_special_chars(s) == translate(s, char_mapping)

(***************************************************************************)
(* re.sub for the patterns of the source: every pattern is a fixed-length  *)
(* sequence of atoms, an atom being \d or a literal character.             *)
(***************************************************************************)
\* The code points of the digit zero of every Unicode decimal digit
\* system (category Nd, Unicode 14.0.0); the nine digits after it follow.
DecimalZeros ==
    { 48, 1632, 1776, 1984, 2406, 2534, 2662, 2790, 2918, 3046,
      3174, 3302, 3430, 3558, 3664, 3792, 3872, 4160, 4240, 6112,
      6160, 6470, 6608, 6784, 6800, 6992, 7088, 7232, 7248, 42528,
      43216, 43264, 43472, 43504, 43600, 44016, 65296, 66720, 68912, 69734,
      69872, 69942, 70096, 70384, 70736, 70864, 71248, 71360, 71472, 71904,
      72016, 72784, 73040, 73120, 92768, 92864, 93008, 120782, 120792, 120802,
      120812, 120822, 123200, 123632, 125264, 130032 }

\* \d in a str pattern: any Unicode decimal digit.
IsDigit(c) ==
    \/ (c >= 48 /\ c <= 57)
    \/ (c > 57 /\ \E z \in DecimalZeros : c >= z /\ c <= z + 9)

ANY_DIGIT == 0 - 1       \* the atom \d (no code point is negative)

AtomMatches(a, c) == IF a = ANY_DIGIT THEN IsDigit(c) ELSE a = c

\* Does the pattern match the text at position i (1-based)?
MatchesAt(pat, s, i) ==
    /\ i + Len(pat) - 1 <= Len(s)
    /\ \A k \in 1..Len(pat) : AtomMatches(pat[k], s[i + k - 1])

\* re.sub(pat, repl, s): leftmost non-overlapping matches, scanned left to
\* right; a match is replaced by repl and the scan resumes after it.
RECURSIVE re_sub_from(_, _, _, _)
re_sub_from(pat, repl, s, i) ==
    IF i > Len(s) THEN <<>>
    ELSE IF MatchesAt(pat, s, i)
         THEN repl \o re_sub_from(pat, repl, s, i + Len(pat))
         ELSE <<s[i]>> \o re_sub_from(pat, repl, s, i + 1)

re_sub(pat, repl, s) == re_sub_from(pat, repl, s, 1)

(***************************************************************************)
(* remove_numeric_patterns                                                 *)
(***************************************************************************)
PAT_DIGITS_BANG_PAREN == <<ANY_DIGIT, ANY_DIGIT, ANY_DIGIT, ANY_DIGIT, BANG, RPAREN>>
PAT_PAREN_DIGITS == <<RPAREN, ANY_DIGIT, ANY_DIGIT, ANY_DIGIT, ANY_DIGIT>>
PAT_DIGITS_PAREN == <<ANY_DIGIT, ANY_DIGIT, ANY_DIGIT, ANY_DIGIT, RPAREN>>
PAT_DIGITS == <<ANY_DIGIT, ANY_DIGIT, ANY_DIGIT, ANY_DIGIT>>

\* The list as a plausible slip would leave it: the bare run tried first.
patterns_bare_first ==
    <<PAT_DIGITS, PAT_DIGITS_BANG_PAREN, PAT_PAREN_DIGITS, PAT_DIGITS_PAREN>>

\* The list without its last entry.
patterns_without_bare ==
    <<PAT_DIGITS_BANG_PAREN, PAT_PAREN_DIGITS, PAT_DIGITS_PAREN>>

patterns ==
    <<PAT_DIGITS_BANG_PAREN, PAT_PAREN_DIGITS, PAT_DIGITS_PAREN, PAT_DIGITS>>

\* for pattern in pats: text = re.sub(pattern, "", text)
RECURSIVE sub_each(_, _)
sub_each(pats, s) ==
    IF pats = <<>> THEN s
    ELSE sub_each(Tail(pats), re_sub(Head(pats), <<>>, s))

remove_numeric_patterns_bare_first(s) == sub_each(patterns_bare_first, s)

remove_numeric_patterns_without_bare(s) == sub_each(patterns_without_bare, s)

remove_numeric_patterns(s) == sub_each(patterns, s)

(***************************************************************************)
(* adjust_line_breaks                                                      *)
(***************************************************************************)
\* The newline put after the fullwidth space instead of before it.
adjust_line_breaks_after_space(s) ==
    re_sub(<<LEFT_BRACKET>>, <<NEWLINE, LEFT_BRACKET>>,
           re_sub(<<FULL_STOP, IDEOGRAPHIC_SPACE>>,
                  <<FULL_STOP, IDEOGRAPHIC_SPACE, NEWLINE>>, s))

adjust_line_breaks(s) ==
    re_sub(<<LEFT_BRACKET>>, <<NEWLINE, LEFT_BRACKET>>,
           re_sub(<<FULL_STOP, IDEOGRAPHIC_SPACE>>,
                  <<FULL_STOP, NEWLINE, IDEOGRAPHIC_SPACE>>, s))

(***************************************************************************)
(* The document tree.  A parsed document has its nodes numbered 1..N in    *)
(* document order; node 0 is the BeautifulSoup object itself.  kind[n] is  *)
(* the tag name, or "#text" for a NavigableString with the content str[n]. *)
(***************************************************************************)
NoParent == 0 - 1        \* .parent is None

NodesOf(doc) == 1..Len(doc.kind)

\* The children of n in document order, from node i on.
RECURSIVE ChildrenFrom(_, _, _)
ChildrenFrom(doc, n, i) ==
    IF i > Len(doc.kind) THEN <<>>
    ELSE (IF doc.parent[i] = n THEN <<i>> ELSE <<>>) \o ChildrenFrom(doc, n, i + 1)

\* BeautifulSoup(html_text, "lxml"): the tree of the parsed document.
BeautifulSoup(doc) ==
    [ kind       |-> doc.kind,
      str        |-> doc.str,
      parent     |-> [n \in NodesOf(doc) |-> doc.parent[n]],
      contents   |-> [n \in 0..Len(doc.kind) |-> ChildrenFrom(doc, n, 1)],
      decomposed |-> [n \in NodesOf(doc) |-> FALSE] ]

\* Tag.descendants: the nodes below the listed children, in document order.
RECURSIVE DescendantsOfAll(_, _)
DescendantsOfAll(sp, cs) ==
    IF cs = <<>> THEN <<>>
    ELSE <<Head(cs)>> \o DescendantsOfAll(sp, sp.contents[Head(cs)])
                      \o DescendantsOfAll(sp, Tail(cs))

descendants(sp, n) == DescendantsOfAll(sp, sp.contents[n])

\* n.find_all(names): the matching descendants, as a list made at once.
find_all(sp, n, names) ==
    LET Matches(x) == sp.kind[x] \in names
    IN  SelectSeq(descendants(sp, n), Matches)

Without(seq, e) ==
    LET Other(x) == x # e
    IN  SelectSeq(seq, Other)

\* PageElement.extract(): unlink the element from its parent, if it has one.
extract(sp, e) ==
    IF sp.parent[e] = NoParent THEN sp
    ELSE [sp EXCEPT !.contents[sp.parent[e]] = Without(@, e),
                    !.parent[e] = NoParent]

Elements(seq) == {seq[i] : i \in 1..Len(seq)}

\* PageElement.decompose(): extract(), then the element and everything
\* below it is emptied (its __dict__ cleared, so .parent reads None, and
\* contents set to []) and marked decomposed.  On an element that an
\* earlier decompose() already destroyed, extract() finds no parent and
\* nothing is below it.
decompose(sp, e) ==
    LET sp1 == extract(sp, e)
        gone == {e} \cup Elements(descendants(sp1, e))
    IN  [sp1 EXCEPT
            !.parent = [n \in DOMAIN @ |-> IF n \in gone THEN NoParent ELSE @[n]],
            !.contents = [n \in DOMAIN @ |-> IF n \in gone THEN <<>> ELSE @[n]],
            !.decomposed = [n \in DOMAIN @ |-> IF n \in gone THEN TRUE ELSE @[n]]]

\* The tag names remove_tags looks for, as a slip would leave them.
REMOVED_TAGS_rt_only == {"rt"}

REMOVED_TAGS == {"rt", "sup"}

\* for element in soup.find_all(["rt", "sup"]): element.decompose()
RECURSIVE decompose_each(_, _)
decompose_each(sp, elements) ==
    IF elements = <<>> THEN sp
    ELSE decompose_each(decompose(sp, Head(elements)), Tail(elements))

remove_tags(doc) ==
    LET sp == BeautifulSoup(doc)
    IN  decompose_each(sp, find_all(sp, 0, REMOVED_TAGS))

\* Tag.text: the strings below the element, joined in document order.
RECURSIVE JoinStrings(_, _)
JoinStrings(sp, ns) ==
    IF ns = <<>> THEN <<>>
    ELSE (IF sp.kind[Head(ns)] = "#text" THEN sp.str[Head(ns)] ELSE <<>>)
         \o JoinStrings(sp, Tail(ns))

get_text(sp, n) == JoinStrings(sp, descendants(sp, n))

\* for paragraph in paragraphs: output_text += paragraph.text + "\n\n"
RECURSIVE JoinParagraphs(_, _)
JoinParagraphs(sp, ps) ==
    IF ps = <<>> THEN <<>>
    ELSE get_text(sp, Head(ps)) \o <<NEWLINE, NEWLINE>> \o JoinParagraphs(sp, Tail(ps))

extract_paragraphs(sp) == JoinParagraphs(sp, find_all(sp, 0, {"p"}))

(***************************************************************************)
(* Values shared by the specifications.                                    *)
(***************************************************************************)
\* All strings over an alphabet up to a length.
StringsUpTo(alphabet, n) == UNION { [1..k -> alphabet] : k \in 0..n }

\* The empty document: the empty string, which parses to an empty tree.
EmptyDoc == [empty |-> TRUE, kind |-> <<>>, parent |-> <<>>, str |-> <<>>]

\* A value yaml.safe_load can return, by its Python type (tag): the keys
\* and the "url" entry of a mapping, the items of a list or the characters
\* of a string, the value of an integer.  None has none of them.
SettingsValue(tag, keys, url, items, number) ==
    [tag |-> tag, keys |-> keys, url |-> url, items |-> items, number |-> number]

NoneSettings == SettingsValue("None", {}, <<>>, <<>>, 0)

NoneText == [tag |-> "None", doc |-> EmptyDoc]

NoSoup == [kind |-> <<>>, str |-> <<>>, parent |-> <<>>, contents |-> <<>>, decomposed |-> <<>>]

\* The variables of main() at rest, for the specifications of one function.
MainIdle ==
    /\ cfgFile = [state |-> "missing", value |-> NoneSettings]
    /\ srcFile = [state |-> "missing", doc |-> EmptyDoc]
    /\ netResp = [outcome |-> "Timeout", status_code |-> 0, doc |-> EmptyDoc]
    /\ outFile = [exists |-> FALSE, content |-> <<>>]
    /\ outBefore = outFile
    /\ log = <<>>
    /\ ran = <<>>
    /\ exc = "none"
    /\ settings = NoneSettings

mainOnlyVars == <<cfgFile, srcFile, netResp, outFile, outBefore, log, ran, exc, settings>>

TreeIdle == html_text = NoneText /\ soup = NoSoup /\ found = <<>>

treeVars == <<html_text, soup, found>>

(***************************************************************************)
(* Specification of remove_numeric_patterns alone.                         *)
(***************************************************************************)
MaxApply == 2            \* how often a transform is applied to its own output
MaxNumericLen == 9       \* longest generated input of remove_numeric_patterns

NumericAlphabet == {DIGIT_1, BANG, RPAREN}

EX_1234_BANG_PAREN == <<DIGIT_1, DIGIT_2, DIGIT_3, DIGIT_4, BANG, RPAREN>>   \* "1234!)"
EX_PAREN_1234_PAREN == <<LPAREN, DIGIT_1, DIGIT_2, DIGIT_3, DIGIT_4, RPAREN>> \* "(1234)"
EX_1234 == <<DIGIT_1, DIGIT_2, DIGIT_3, DIGIT_4>>                            \* "1234"
EX_FULLWIDTH == <<FULLWIDTH_DIGIT_1, FULLWIDTH_DIGIT_1, FULLWIDTH_DIGIT_1, FULLWIDTH_DIGIT_1, LPAREN>>

NumericInputs ==
    StringsUpTo(NumericAlphabet, MaxNumericLen)
        \cup {EX_1234_BANG_PAREN, EX_PAREN_1234_PAREN, EX_1234, EX_FULLWIDTH}

InitNumeric ==
    /\ MainIdle /\ TreeIdle
    /\ pc = "input"
    /\ text \in NumericInputs
    /\ prev = text
    /\ applied = 0

ApplyRemoveNumericPatterns ==
    /\ applied < MaxApply
    /\ pc' = "remove_numeric_patterns"
    /\ prev' = text
    /\ text' = remove_numeric_patterns(text)
    /\ applied' = applied + 1
    /\ UNCHANGED <<mainOnlyVars, treeVars>>

NextNumeric == ApplyRemoveNumericPatterns

SpecNumeric == InitNumeric /\ [][NextNumeric]_vars

\* C6: remove_numeric_patterns deletes the matches of the four patterns in
\* the order digits+"!)", ")"+digits, digits+")", bare digits, each applied
\* to the text the earlier ones left; so "1234!)" becomes "", "(1234)"
\* becomes "(" and "1234" becomes "", and the order matters: the bare
\* pattern applied first to "1234!)" leaves "!)".
C6_OrderedRemoval ==
    pc = "remove_numeric_patterns" =>
        /\ text = re_sub(PAT_DIGITS, <<>>,
                    re_sub(PAT_DIGITS_PAREN, <<>>,
                      re_sub(PAT_PAREN_DIGITS, <<>>,
                        re_sub(PAT_DIGITS_BANG_PAREN, <<>>, prev))))
        /\ (prev = EX_1234_BANG_PAREN => text = <<>>)
        /\ (prev = EX_PAREN_1234_PAREN => text = <<LPAREN>>)
        /\ (prev = EX_1234 => text = <<>>)
        /\ (prev = EX_1234_BANG_PAREN =>
                /\ re_sub(PAT_DIGITS_BANG_PAREN, <<>>, re_sub(PAT_DIGITS, <<>>, prev))
                       = <<BANG, RPAREN>>
                /\ text # <<BANG, RPAREN>>)

\* "(1234)" has been processed: only pattern 3 matched, "(" is left.
C6_Witness ==
    /\ pc = "remove_numeric_patterns"
    /\ applied = 1
    /\ prev = EX_PAREN_1234_PAREN
    /\ text = <<LPAREN>>

HasFourDigitRun(s) ==
    \E i \in 1..(Len(s) - 3) : \A k \in 0..3 : IsDigit(s[i + k])

\* C10: the output of remove_numeric_patterns holds no run of four decimal
\* digits, and applying remove_numeric_patterns to its own output changes
\* nothing.
C10_NoFourDigitsIdempotent ==
    pc = "remove_numeric_patterns" =>
        /\ ~HasFourDigitRun(text)
        /\ (applied >= 2 => text = prev)

\* Deleting ")1111" out of "11)111111" joined the digits on its two sides
\* into a new run of four, which the last pattern then deleted.
C10_Witness ==
    /\ pc = "remove_numeric_patterns"
    /\ applied = 1
    /\ prev = <<DIGIT_1, DIGIT_1, RPAREN, DIGIT_1, DIGIT_1, DIGIT_1, DIGIT_1, DIGIT_1, DIGIT_1>>
    /\ re_sub(PAT_PAREN_DIGITS, <<>>, prev) = <<DIGIT_1, DIGIT_1, DIGIT_1, DIGIT_1>>
    /\ text = <<>>

(***************************************************************************)
(* Specification of remove_special_chars alone.                            *)
(***************************************************************************)
MaxCharsLen == 3         \* longest generated input of remove_special_chars

\* Both keys with a replacement, their replacements, deleted keys and
\* characters outside the table.
CharsAlphabet ==
    { HALFWIDTH_STOP, HALFWIDTH_COMMA, FULL_STOP, IDEOGRAPHIC_COMMA,
      IDEOGRAPHIC_SPACE, ASCII_SPACE, KANJI_ONE, 42, 711,
      HIRAGANA_A, HIRAGANA_I, NEWLINE }

InitChars ==
    /\ MainIdle /\ TreeIdle
    /\ pc = "input"
    /\ text \in StringsUpTo(CharsAlphabet, MaxCharsLen)
    /\ prev = text
    /\ applied = 0

ApplyRemoveSpecialChars ==
    /\ applied < MaxApply
    /\ pc' = "remove_special_chars"
    /\ prev' = text
    /\ text' = remove_special_chars(text)
    /\ applied' = applied + 1
    /\ UNCHANGED <<mainOnlyVars, treeVars>>

NextChars == ApplyRemoveSpecialChars

SpecChars == InitChars /\ [][NextChars]_vars

IsKey(c) == c \in DOMAIN char_mapping

NotKey(c) == ~IsKey(c)

\* Is a a subsequence of b (the same characters in the same order)?
RECURSIVE IsSubsequence(_, _)
IsSubsequence(a, b) ==
    IF a = <<>> THEN TRUE
    ELSE IF b = <<>> THEN FALSE
    ELSE IF Head(a) = Head(b) THEN IsSubsequence(Tail(a), Tail(b))
    ELSE IsSubsequence(a, Tail(b))

\* C7: remove_special_chars is idempotent, no replacement value of the
\* table holds a key of the table, and the characters that are not keys
\* pass through unchanged and in the same order.
C7_Idempotent ==
    pc = "remove_special_chars" =>
        /\ (applied >= 2 => text = prev)
        /\ \A i \in 1..Len(text) : NotKey(text[i])
        /\ \A k \in DOMAIN char_mapping :
               \A i \in 1..Len(char_mapping[k]) : NotKey(char_mapping[k][i])
        /\ IsSubsequence(SelectSeq(prev, NotKey), text)
        /\ ((\A i \in 1..Len(prev) : NotKey(prev[i]) \/ char_mapping[prev[i]] = <<>>)
               => text = SelectSeq(prev, NotKey))

\* A full stop (the replacement of the halfwidth stop) and an unmapped
\* character went through a second application and came out unchanged.
C7_Witness ==
    /\ pc = "remove_special_chars"
    /\ applied = 2
    /\ text = <<FULL_STOP, HIRAGANA_A>>
    /\ prev = text

(***************************************************************************)
(* Specification of adjust_line_breaks alone.                              *)
(***************************************************************************)
MaxBreaksLen == 5        \* longest generated input of adjust_line_breaks

BreaksAlphabet == {FULL_STOP, IDEOGRAPHIC_SPACE, LEFT_BRACKET, NEWLINE, HIRAGANA_A}

EX_STOP_SPACE == <<FULL_STOP, IDEOGRAPHIC_SPACE, KANJI_NEXT>>
EX_BRACKET == <<KANJI_BEFORE, LEFT_BRACKET, KANJI_AFTER>>

InitBreaks ==
    /\ MainIdle /\ TreeIdle
    /\ pc = "input"
    /\ text \in StringsUpTo(BreaksAlphabet, MaxBreaksLen) \cup {EX_STOP_SPACE, EX_BRACKET}
    /\ prev = text
    /\ applied = 0

ApplyAdjustLineBreaks ==
    /\ applied < MaxApply
    /\ pc' = "adjust_line_breaks"
    /\ prev' = text
    /\ text' = adjust_line_breaks(text)
    /\ applied' = applied + 1
    /\ UNCHANGED <<mainOnlyVars, treeVars>>

NextBreaks == ApplyAdjustLineBreaks

SpecBreaks == InitBreaks /\ [][NextBreaks]_vars

\* The places of s that get a newline put in front of them.
BreakBefore(s, i) ==
    \/ s[i] = LEFT_BRACKET
    \/ (i > 1 /\ s[i] = IDEOGRAPHIC_SPACE /\ s[i - 1] = FULL_STOP)

RECURSIVE WithBreaksFrom(_, _)
WithBreaksFrom(s, i) ==
    IF i > Len(s) THEN <<>>
    ELSE (IF BreakBefore(s, i) THEN <<NEWLINE, s[i]>> ELSE <<s[i]>>)
         \o WithBreaksFrom(s, i + 1)

\* C8: adjust_line_breaks puts one newline between every full stop and a
\* fullwidth space right after it, and one newline before every left
\* bracket, and changes nothing else.
C8_LineBreaks ==
    pc = "adjust_line_breaks" =>
        /\ text = WithBreaksFrom(prev, 1)
        /\ Len(text) = Len(prev) + Cardinality({i \in 1..Len(prev) : BreakBefore(prev, i)})
        /\ (prev = EX_STOP_SPACE =>
                text = <<FULL_STOP, NEWLINE, IDEOGRAPHIC_SPACE, KANJI_NEXT>>)
        /\ (prev = EX_BRACKET =>
                text = <<KANJI_BEFORE, NEWLINE, LEFT_BRACKET, KANJI_AFTER>>)

\* Both rules acted on one input.
C8_Witness ==
    /\ pc = "adjust_line_breaks"
    /\ applied = 1
    /\ prev = <<FULL_STOP, IDEOGRAPHIC_SPACE, LEFT_BRACKET>>
    /\ text = <<FULL_STOP, NEWLINE, IDEOGRAPHIC_SPACE, NEWLINE, LEFT_BRACKET>>

(***************************************************************************)
(* Specification of remove_tags and extract_paragraphs on every tree of    *)
(* up to MaxNodes nodes.                                                   *)
(***************************************************************************)
MaxNodes == 4            \* most nodes of a generated document tree

TreeKinds == {"p", "rt", "sup", "span", "#text"}

\* Is a the node n or above it?
RECURSIVE IsAncestorOrSelf(_, _, _)
IsAncestorOrSelf(par, a, n) ==
    IF n = a THEN TRUE
    ELSE IF n = 0 THEN FALSE
    ELSE IsAncestorOrSelf(par, a, par[n])

\* Numbering in document order: a node hangs under the root, under the
\* node before it or under one of that node's ancestors.
DocumentOrder(par) ==
    \A i \in 1..Len(par) :
        /\ par[i] < i
        /\ (i > 1 => IsAncestorOrSelf(par, par[i], i - 1))

\* A string has no children.
StringsAreLeaves(kind, par) ==
    \A i \in 1..Len(kind) : par[i] # 0 => kind[par[i]] # "#text"

\* The string of node i is one character of its own.
StrOf(kind) == [i \in 1..Len(kind) |-> IF kind[i] = "#text" THEN <<HIRAGANA_A + i>> ELSE <<>>]

TreeShapes(n) == { par \in [1..n -> 0..(n - 1)] : DocumentOrder(par) }

TreeDoc(kind, par) == [empty |-> FALSE, kind |-> kind, parent |-> par, str |-> StrOf(kind)]

TextIdle == text = <<>> /\ prev = <<>> /\ applied = 0

InitTags ==
    /\ MainIdle /\ TextIdle
    /\ pc = "remove_tags"
    /\ \E n \in 1..MaxNodes :
         \E kind \in [1..n -> TreeKinds] :
           \E par \in TreeShapes(n) :
              /\ StringsAreLeaves(kind, par)
              /\ html_text = [tag |-> "str", doc |-> TreeDoc(kind, par)]
    /\ soup = NoSoup
    /\ found = <<>>

\* soup = BeautifulSoup(html_text, "lxml"); soup.find_all(["rt", "sup"])
RemoveTagsFind ==
    /\ pc = "remove_tags"
    /\ soup' = BeautifulSoup(html_text.doc)
    /\ found' = find_all(soup', 0, REMOVED_TAGS)
    /\ pc' = "decompose"
    /\ UNCHANGED <<mainOnlyVars, html_text, text, prev, applied>>

\* One turn of the loop: element.decompose()
RemoveTagsDecompose ==
    /\ pc = "decompose"
    /\ found # <<>>
    /\ soup' = decompose(soup, Head(found))
    /\ found' = Tail(found)
    /\ UNCHANGED <<pc, mainOnlyVars, html_text, text, prev, applied>>

\* return soup
RemoveTagsReturn ==
    /\ pc = "decompose"
    /\ found = <<>>
    /\ pc' = "extract_paragraphs"
    /\ UNCHANGED <<mainOnlyVars, treeVars, text, prev, applied>>

ExtractParagraphs ==
    /\ pc = "extract_paragraphs"
    /\ text' = extract_paragraphs(soup)
    /\ pc' = "done"
    /\ UNCHANGED <<mainOnlyVars, treeVars, prev, applied>>

NextTags ==
    \/ RemoveTagsFind
    \/ RemoveTagsDecompose
    \/ RemoveTagsReturn
    \/ ExtractParagraphs

SpecTags == InitTags /\ [][NextTags]_vars

\* In the parsed document: is node n an rt or sup element, or inside one?
RECURSIVE IsAnnotated(_, _)
IsAnnotated(doc, n) ==
    IF n = 0 THEN FALSE
    ELSE doc.kind[n] \in {"rt", "sup"} \/ IsAnnotated(doc, doc.parent[n])

\* The nodes from i on that are in the set keep, in document order.
RECURSIVE NodesFrom(_, _, _)
NodesFrom(doc, i, keep) ==
    IF i > Len(doc.kind) THEN <<>>
    ELSE (IF i \in keep THEN <<i>> ELSE <<>>) \o NodesFrom(doc, i + 1, keep)

\* The text of paragraph p without the annotated parts, from the parsed
\* document alone.
PlainTextOf(doc, p) ==
    LET Plain == { n \in NodesOf(doc) : /\ doc.kind[n] = "#text"
                                        /\ IsAncestorOrSelf(doc.parent, p, n)
                                        /\ ~IsAnnotated(doc, n) }
        RECURSIVE Join(_)
        Join(ns) == IF ns = <<>> THEN <<>> ELSE doc.str[Head(ns)] \o Join(Tail(ns))
    IN  Join(NodesFrom(doc, 1, Plain))

RECURSIVE PlainParagraphs(_, _)
PlainParagraphs(doc, ps) ==
    IF ps = <<>> THEN <<>>
    ELSE PlainTextOf(doc, Head(ps)) \o <<NEWLINE, NEWLINE>> \o PlainParagraphs(doc, Tail(ps))

\* C9: after remove_tags no rt or sup element is left in the tree, nested
\* ones included, and no text that was inside one; every other node is
\* still there, in document order and with the same string; so what
\* extract_paragraphs collects is the text of the paragraphs minus the
\* annotated parts.
C9_TagsRemoved ==
    LET doc == html_text.doc
        Kept == { n \in NodesOf(doc) : ~IsAnnotated(doc, n) }
        KeptParagraph == { n \in Kept : doc.kind[n] = "p" }
    IN  /\ (pc \in {"extract_paragraphs", "done"} =>
              /\ descendants(soup, 0) = NodesFrom(doc, 1, Kept)
              /\ \A n \in Elements(descendants(soup, 0)) :
                     /\ soup.kind[n] \notin {"rt", "sup"}
                     /\ soup.str[n] = doc.str[n]
                     /\ ~soup.decomposed[n]
              /\ \A n \in NodesOf(doc) : IsAnnotated(doc, n) => soup.decomposed[n])
        /\ (pc = "done" => text = PlainParagraphs(doc, NodesFrom(doc, 1, KeptParagraph)))

\* A paragraph held a sup with an rt nested in it next to plain text; both
\* elements were visited and the plain text alone was collected.
C9_Witness ==
    /\ pc = "done"
    /\ html_text.doc.kind = <<"p", "sup", "rt", "#text">>
    /\ html_text.doc.parent = <<0, 1, 2, 1>>
    /\ text = <<HIRAGANA_A + 4, NEWLINE, NEWLINE>>

(***************************************************************************)
(* The environment of main(): settings.yaml, the source document (a local  *)
(* file or a remote page) and the output file.                             *)
(***************************************************************************)
\* "file://"
FILE_PREFIX == <<102, 105, 108, 101, 58, 47, 47>>

\* "/i": the path at which the local source document may exist.
SRC_PATH == <<47, 105>>

URL_LOCAL == FILE_PREFIX \o SRC_PATH                   \* "file:///i"
URL_ELSEWHERE == FILE_PREFIX \o <<47, 120>>            \* "file:///x", no such file
URL_REMOTE == <<104, 116, 116, 112, 58, 47, 47, 104>>  \* "http://h"

Urls == {URL_LOCAL, URL_ELSEWHERE, URL_REMOTE}

\* <p>a<rt>furigana</rt>i[full stop][fullwidth space]u</p> as lxml parses
\* it (a, i, u: the hiragana letters; furigana: U+3075 U+308A U+304C U+306A).
DocExample ==
    [ empty  |-> FALSE,
      kind   |-> <<"html", "body", "p", "#text", "rt", "#text", "#text">>,
      parent |-> <<0, 1, 2, 3, 3, 5, 3>>,
      str    |-> << <<>>, <<>>, <<>>, <<HIRAGANA_A>>, <<>>,
                    <<12405, 12426, 12364, 12394>>,
                    <<HIRAGANA_I, FULL_STOP, IDEOGRAPHIC_SPACE, HIRAGANA_U>> >> ]

\* <p>[before]<sup>1</sup>1234!)[left bracket][after]</p>
DocNotes ==
    [ empty  |-> FALSE,
      kind   |-> <<"html", "body", "p", "#text", "sup", "#text", "#text">>,
      parent |-> <<0, 1, 2, 3, 3, 5, 3>>,
      str    |-> << <<>>, <<>>, <<>>, <<KANJI_BEFORE>>, <<>>, <<DIGIT_1>>,
                    <<DIGIT_1, DIGIT_2, DIGIT_3, DIGIT_4, BANG, RPAREN,
                      LEFT_BRACKET, KANJI_AFTER>> >> ]

Docs == {EmptyDoc, DocExample, DocNotes}

\* What yaml.safe_load can return: None (an empty file), a mapping with
\* any of the two keys and of a key the program does not read ({} among
\* them), a list ([] or ['a']), an integer (0 or 1), a string ('' or 'a').
ParsedSettings ==
    {NoneSettings}
    \cup { SettingsValue("dict", ks, IF "url" \in ks THEN URL_LOCAL ELSE <<>>, <<>>, 0) :
             ks \in SUBSET {"url", "output_file", "foo"} }
    \cup { SettingsValue("dict", {"url", "output_file"}, x, <<>>, 0) : x \in Urls }
    \cup { SettingsValue("list", {}, <<>>, items, 0) : items \in { <<>>, <<HIRAGANA_A>> } }
    \cup { SettingsValue("int", {}, <<>>, <<>>, n) : n \in {0, 1} }
    \cup { SettingsValue("str", {}, <<>>, items, 0) : items \in { <<>>, <<HIRAGANA_A>> } }

ConfigFiles ==
    { [state |-> st, value |-> NoneSettings] : st \in {"missing", "unreadable", "malformed"} }
    \cup { [state |-> "parsed", value |-> v] : v \in ParsedSettings }

SourceFiles ==
    { [state |-> st, doc |-> EmptyDoc] : st \in {"missing", "unreadable", "undecodable"} }
    \cup { [state |-> "readable", doc |-> d] : d \in Docs }

HTTP_OK == 200

NetResponses ==
    { [outcome |-> o, status_code |-> 0, doc |-> EmptyDoc] :
        o \in {"Timeout", "ConnectionError", "TooManyRedirects"} }
    \cup { [outcome |-> "response", status_code |-> c, doc |-> DocExample] :
             c \in {HTTP_OK, 201, 404} }

\* What the output file held before the run.
OLD_CONTENT == <<HIRAGANA_U, HIRAGANA_U>>

OutFiles == { [exists |-> FALSE, content |-> <<>>], [exists |-> TRUE, content |-> OLD_CONTENT] }

(***************************************************************************)
(* Exceptions: the classes raised, and which except clause catches them.   *)
(***************************************************************************)
\* The direct base class of each class that occurs.
BaseClass ==
    [ FileNotFoundError  |-> "IOError",
      PermissionError    |-> "IOError",
      Timeout            |-> "RequestException",
      ConnectionError    |-> "RequestException",
      TooManyRedirects   |-> "RequestException",
      RequestException   |-> "IOError",
      UnicodeDecodeError |-> "ValueError",
      YAMLError          |-> "Exception",
      IOError            |-> "Exception",
      ValueError         |-> "Exception" ]

RECURSIVE IsSubclass(_, _)
IsSubclass(e, c) ==
    IF e = c THEN TRUE
    ELSE IF e \in DOMAIN BaseClass THEN IsSubclass(BaseClass[e], c)
    ELSE FALSE

\* The first except clause that catches e, 0 if none does.
RECURSIVE FirstHandler(_, _, _)
FirstHandler(clauses, e, i) ==
    IF i > Len(clauses) THEN 0
    ELSE IF IsSubclass(e, clauses[i].class) THEN i
    ELSE FirstHandler(clauses, e, i + 1)

\* The result of a call: the value returned, what it printed, and the
\* exception it raised ("none" if it returned).
Returned(value, printed) == [value |-> value, printed |-> printed, raised |-> "none"]

\* try: ... except clauses: a caught exception prints the clause's message
\* and the function returns None; any other exception leaves the function.
Handle(clauses, e, printed, none) ==
    LET i == FirstHandler(clauses, e, 1)
    IN  IF i = 0 THEN [value |-> none, printed |-> printed, raised |-> e]
        ELSE Returned(none, Append(printed, clauses[i].prints))

(***************************************************************************)
(* load_settings                                                           *)
(***************************************************************************)
LoadSettingsClauses == << [class |-> "IOError", prints |-> "error_loading_settings"] >>

load_settings(file) ==
    CASE file.state = "missing" ->
            Handle(LoadSettingsClauses, "FileNotFoundError", <<>>, NoneSettings)
      [] file.state = "unreadable" ->
            Handle(LoadSettingsClauses, "PermissionError", <<>>, NoneSettings)
      [] file.state = "malformed" ->
            Handle(LoadSettingsClauses, "YAMLError", <<>>, NoneSettings)
      [] OTHER -> Returned(file.value, <<>>)

(***************************************************************************)
(* fetch_html                                                              *)
(***************************************************************************)
FetchClauses ==
    << [class |-> "FileNotFoundError", prints |-> "error_file_not_found"],
       [class |-> "IOError",           prints |-> "error_file_read"],
       [class |-> "Timeout",           prints |-> "error_timeout"],
       [class |-> "ConnectionError",   prints |-> "error_connection"],
       [class |-> "RequestException",  prints |-> "error_request"] >>

\* str.startswith
startswith(s, prefix) ==
    Len(s) >= Len(prefix) /\ SubSeq(s, 1, Len(prefix)) = prefix

StrText(doc) == [tag |-> "str", doc |-> doc]

\* open(file_path, 'r', encoding='utf-8') and f.read()
fetch_local(file_path, file, printed) ==
    IF file_path # SRC_PATH \/ file.state = "missing"
    THEN Handle(FetchClauses, "FileNotFoundError", printed, NoneText)
    ELSE IF file.state = "unreadable"
    THEN Handle(FetchClauses, "PermissionError", printed, NoneText)
    ELSE IF file.state = "undecodable"
    THEN Handle(FetchClauses, "UnicodeDecodeError", printed, NoneText)
    ELSE Returned(StrText(file.doc), printed)

\* requests.get(url, timeout=10) and the status check
fetch_remote(resp, printed) ==
    IF resp.outcome # "response"
    THEN Handle(FetchClauses, resp.outcome, printed, NoneText)
    ELSE IF resp.status_code # HTTP_OK
    THEN Returned(NoneText, Append(printed, "error_http_status"))
    ELSE Returned(StrText(resp.doc), printed)

fetch_html(url, file, resp) ==
    LET printed == <<"loading_html">>
    IN  IF startswith(url, FILE_PREFIX)
        THEN fetch_local(SubSeq(url, Len(FILE_PREFIX) + 1, Len(url)), file, printed)
        ELSE fetch_remote(resp, printed)

\* The prints that report a failure.
Diagnostics ==
    { "error_loading_settings", "error_http_status", "error_file_not_found",
      "error_file_read", "error_timeout", "error_connection", "error_request",
      "error_saving" }

(***************************************************************************)
(* save_text_to_file, in the two steps at which the file changes.          *)
(***************************************************************************)
\* open(file_path, "w", encoding="UTF-8"): the file is created or truncated
\* as it is opened.
opened_for_writing(file) == [exists |-> TRUE, content |-> <<>>]

\* file.write(text) and the close: k characters reach the file.
written(file, s, k) == [exists |-> TRUE, content |-> SubSeq(s, 1, k)]

(***************************************************************************)
(* main()                                                                  *)
(***************************************************************************)
\* if settings: the truth value Python gives the object: a mapping with a
\* key whatever its name, a list or a string that is not empty, an integer
\* other than 0; None is false.
TruthySettings(v) ==
    CASE v.tag = "None" -> FALSE
      [] v.tag = "dict" -> v.keys # {}
      [] v.tag = "list" -> Len(v.items) > 0
      [] v.tag = "str"  -> Len(v.items) > 0
      [] v.tag = "int"  -> v.number # 0

\* settings[key]: what the subscript raises ("none" when it yields a value).
\* Only a mapping takes a string key; a list, a string and an integer
\* raise TypeError.
getitem(v, key) ==
    IF v.tag # "dict" THEN "TypeError"
    ELSE IF key \notin v.keys THEN "KeyError"
    ELSE "none"

TruthyText(v) == v.tag = "str" /\ ~v.doc.empty

Init ==
    /\ pc = "load_settings"
    /\ cfgFile \in ConfigFiles
    /\ srcFile \in SourceFiles
    /\ netResp \in NetResponses
    /\ outFile \in OutFiles
    /\ outBefore = outFile
    /\ log = <<>>
    /\ ran = <<>>
    /\ exc = "none"
    /\ settings = NoneSettings
    /\ TreeIdle
    /\ TextIdle

envVars == <<cfgFile, srcFile, netResp, outBefore>>

\* settings = load_settings(settings_file)
LoadSettings ==
    /\ pc = "load_settings"
    /\ LET r == load_settings(cfgFile)
       IN  /\ settings' = r.value
           /\ log' = log \o r.printed
           /\ exc' = r.raised
           /\ pc' = IF r.raised # "none" THEN "crashed" ELSE "check_settings"
    /\ ran' = Append(ran, "load_settings")
    /\ UNCHANGED <<envVars, outFile, treeVars, text, prev, applied>>

\* if settings: url = settings["url"]; output_file = settings["output_file"]
CheckSettings ==
    /\ pc = "check_settings"
    /\ IF ~TruthySettings(settings)
       THEN pc' = "done" /\ exc' = exc
       ELSE IF getitem(settings, "url") # "none"
       THEN pc' = "crashed" /\ exc' = getitem(settings, "url")
       ELSE IF getitem(settings, "output_file") # "none"
       THEN pc' = "crashed" /\ exc' = getitem(settings, "output_file")
       ELSE pc' = "fetch_html" /\ exc' = exc
    /\ UNCHANGED <<envVars, outFile, log, ran, settings, treeVars, text, prev, applied>>

\* html_text = fetch_html(url); if html_text:
FetchHtml ==
    /\ pc = "fetch_html"
    /\ LET r == fetch_html(settings.url, srcFile, netResp)
       IN  /\ html_text' = r.value
           /\ log' = log \o r.printed
           /\ exc' = r.raised
           /\ pc' = IF r.raised # "none" THEN "crashed"
                    ELSE IF TruthyText(r.value) THEN "remove_tags"
                    ELSE "done"
    /\ ran' = Append(ran, "fetch_html")
    /\ UNCHANGED <<envVars, outFile, settings, soup, found, text, prev, applied>>

\* soup = remove_tags(html_text)
RemoveTags ==
    /\ pc = "remove_tags"
    /\ soup' = remove_tags(html_text.doc)
    /\ pc' = "main_extract_paragraphs"
    /\ ran' = Append(ran, "remove_tags")
    /\ UNCHANGED <<envVars, outFile, log, exc, settings, html_text, found, text, prev, applied>>

\* text = extract_paragraphs(soup)
MainExtractParagraphs ==
    /\ pc = "main_extract_paragraphs"
    /\ text' = extract_paragraphs(soup)
    /\ prev' = text
    /\ pc' = "remove_special_chars"
    /\ ran' = Append(ran, "extract_paragraphs")
    /\ UNCHANGED <<envVars, outFile, log, exc, settings, treeVars, applied>>

\* text = remove_special_chars(text)
RemoveSpecialChars ==
    /\ pc = "remove_special_chars"
    /\ text' = remove_special_chars(text)
    /\ prev' = text
    /\ pc' = "remove_numeric_patterns"
    /\ ran' = Append(ran, "remove_special_chars")
    /\ UNCHANGED <<envVars, outFile, log, exc, settings, treeVars, applied>>

\* text = remove_numeric_patterns(text)
RemoveNumericPatterns ==
    /\ pc = "remove_numeric_patterns"
    /\ text' = remove_numeric_patterns(text)
    /\ prev' = text
    /\ pc' = "adjust_line_breaks"
    /\ ran' = Append(ran, "remove_numeric_patterns")
    /\ UNCHANGED <<envVars, outFile, log, exc, settings, treeVars, applied>>

\* text = adjust_line_breaks(text)
AdjustLineBreaks ==
    /\ pc = "adjust_line_breaks"
    /\ text' = adjust_line_breaks(text)
    /\ prev' = text
    /\ pc' = "save_open"
    /\ ran' = Append(ran, "adjust_line_breaks")
    /\ UNCHANGED <<envVars, outFile, log, exc, settings, treeVars, applied>>

\* save_text_to_file: open(file_path, "w") fails with an IOError, which is
\* caught and printed, or truncates the file.
SaveOpen ==
    /\ pc = "save_open"
    /\ ran' = Append(ran, "save_text_to_file")
    /\ \E ok \in BOOLEAN :
         IF ok
         THEN /\ outFile' = opened_for_writing(outFile)
              /\ pc' = "save_write"
              /\ log' = log
         ELSE /\ outFile' = outFile
              /\ pc' = "done"
              /\ log' = Append(log, "error_saving")
    /\ UNCHANGED <<envVars, exc, settings, treeVars, text, prev, applied>>

\* save_text_to_file: file.write(text) and the close write all of the text,
\* or fail with an IOError (caught and printed) after k characters.
SaveWrite ==
    /\ pc = "save_write"
    /\ \E k \in 0..Len(text) :
         /\ outFile' = written(outFile, text, k)
         /\ log' = Append(log, IF k = Len(text) THEN "text_saved" ELSE "error_saving")
    /\ pc' = "done"
    /\ UNCHANGED <<envVars, ran, exc, settings, treeVars, text, prev, applied>>

Next ==
    \/ LoadSettings
    \/ CheckSettings
    \/ FetchHtml
    \/ RemoveTags
    \/ MainExtractParagraphs
    \/ RemoveSpecialChars
    \/ RemoveNumericPatterns
    \/ AdjustLineBreaks
    \/ SaveOpen
    \/ SaveWrite

Spec == Init /\ [][Next]_vars

(***************************************************************************)
(* Claims about main().                                                    *)
(***************************************************************************)
Printed(m) == \E i \in 1..Len(log) : log[i] = m

HasRun(stage) == \E i \in 1..Len(ran) : ran[i] = stage

LaterStages ==
    { "remove_tags", "extract_paragraphs", "remove_special_chars",
      "remove_numeric_patterns", "adjust_line_breaks", "save_text_to_file" }

\* a i [full stop] \n [fullwidth space] u \n \n
C1_Expected ==
    <<HIRAGANA_A, HIRAGANA_I, FULL_STOP, NEWLINE, IDEOGRAPHIC_SPACE, HIRAGANA_U,
      NEWLINE, NEWLINE>>

\* C1: a run on a file:// reference to the example document, whose
\* paragraph holds a full stop followed by a fullwidth space, ends with
\* the text "a i [full stop] \n [fullwidth space] u \n \n", and that text
\* is what the output file holds.
C1_EndToEnd ==
    ( /\ pc = "done"
      /\ startswith(settings.url, FILE_PREFIX)
      /\ html_text = StrText(DocExample)
      /\ Printed("text_saved") )
    => /\ text = C1_Expected
       /\ outFile = [exists |-> TRUE, content |-> C1_Expected]

\* C2: when load_settings returned no configuration, or fetch_html returned
\* no content (None or the empty text), a diagnostic has been printed, no
\* later stage has run and the output file is as it was.
C2_HaltsAfterLogging ==
    LET NoConfiguration == /\ pc \notin {"load_settings", "crashed"}
                           /\ settings.tag = "None"
        NoContent == /\ HasRun("fetch_html")
                     /\ pc # "crashed"
                     /\ ~TruthyText(html_text)
    IN  (NoConfiguration \/ NoContent) =>
            /\ \E i \in 1..Len(log) : log[i] \in Diagnostics
            /\ \A i \in 1..Len(ran) : ran[i] \notin LaterStages
            /\ outFile = outBefore

\* C3: at the end of a run the output file has the content it had before
\* the run or holds the whole normalized text, also when the write stage
\* failed after opening the file.
C3_NoPartialOutput ==
    pc \in {"done", "crashed"} =>
        \/ outFile = outBefore
        \/ (HasRun("save_text_to_file") /\ outFile = [exists |-> TRUE, content |-> text])

\* C4: for a settings file that is missing, unreadable or malformed,
\* load_settings prints a diagnostic and returns None without raising, and
\* main stops there; a configuration main goes on with holds both keys.
C4_SettingsFailure ==
    /\ (HasRun("load_settings") /\ cfgFile.state \in {"missing", "unreadable", "malformed"}) =>
            /\ exc = "none"
            /\ Printed("error_loading_settings")
            /\ settings.tag = "None"
            /\ ran = <<"load_settings">>
    /\ (pc \notin {"load_settings", "check_settings"} /\ TruthySettings(settings)) =>
            (settings.tag = "dict" /\ {"url", "output_file"} \subseteq settings.keys)

\* C5: fetch_html ends by returning the markup or, after printing a
\* diagnostic, None, whatever fails; for a remote reference a status
\* outside 200..299 gives None and a status inside gives the response text.
C5_ResultOrFailure ==
    HasRun("fetch_html") =>
        /\ exc = "none"
        /\ (html_text.tag = "None" => log[Len(log)] \in Diagnostics)
        /\ (~startswith(settings.url, FILE_PREFIX) /\ netResp.outcome = "response") =>
               IF netResp.status_code >= 200 /\ netResp.status_code <= 299
               THEN html_text = StrText(netResp.doc)
               ELSE html_text.tag = "None"

====
